---------------------------- MODULE Spec2Model ----------------------------
(***************************************************************************)
(* Model of src/bot.py (telegram-sheets-bot): the register handler, the    *)
(* read-only commands, the parser, the profit calculation, the row         *)
(* aggregation and the projections.                                        *)
(*                                                                         *)
(* Representation.                                                         *)
(*  - A Python str is a sequence of symbols.  A symbol is one character    *)
(*    ("=", ";", ":", "\n", " ", ",", ".", "-", a digit) or one word that  *)
(*    the code only ever handles as a whole (a field label such as         *)
(*    "id da conta", a currency marker such as "USDT").                    *)
(*  - A Python float is a fixed-point integer: money in hundredths         *)
(*    (Scale), products keep the scale of their factors.                   *)
(***************************************************************************)
EXTENDS Integers, Sequences, FiniteSets, TLC

VARIABLES
    pm_pairs,    \* SpecParse: the key/value pairs that are rendered
    pm_inline,   \* SpecParse: parse_message of the inline rendering
    pm_line,     \* SpecParse: parse_message of the line rendering
    pm_pc,       \* SpecParse: which renderings have been parsed
    cp,          \* SpecCalc: the arguments and results of calc_profit
    pj,          \* SpecProj: the locals of the running projection
    ag,          \* SpecAgg: the locals of the running summary command
    sheet,       \* Spec: the worksheet's values, header row first
    sheet0,      \* Spec: the worksheet's values before the first invocation
    inv          \* Spec: the handler invocations, one per slot

parseVars == <<pm_pairs, pm_inline, pm_line, pm_pc>>

botVars == <<sheet, sheet0, inv>>

vars == <<pm_pairs, pm_inline, pm_line, pm_pc, cp, pj, ag, sheet, sheet0, inv>>

-----------------------------------------------------------------------------
(* str helpers *)

Digits == {"0", "1", "2", "3", "4", "5", "6", "7", "8", "9"}

DigitVal(c) ==
    CASE c = "0" -> 0 [] c = "1" -> 1 [] c = "2" -> 2 [] c = "3" -> 3
      [] c = "4" -> 4 [] c = "5" -> 5 [] c = "6" -> 6 [] c = "7" -> 7
      [] c = "8" -> 8 [] c = "9" -> 9

IsSpace(c) == c \in {" ", "\n", "\t"}

RECURSIVE LStrip(_)
LStrip(s) ==
    IF s # <<>> /\ IsSpace(Head(s)) THEN LStrip(Tail(s)) ELSE s

RECURSIVE RStrip(_)
RStrip(s) ==
    IF s # <<>> /\ IsSpace(s[Len(s)]) THEN RStrip(SubSeq(s, 1, Len(s) - 1)) ELSE s

\* str.strip()
Strip(s) == RStrip(LStrip(s))

\* c in s
Contains(s, c) == \E i \in DOMAIN s : s[i] = c

\* s.index(c), for a c that occurs in s
IndexOf(s, c) == CHOOSE i \in DOMAIN s : s[i] = c /\ \A j \in 1..(i - 1) : s[j] # c

\* s.split(c, 1), for a c that occurs in s
SplitFirst(s, c) ==
    LET i == IndexOf(s, c)
    IN  <<SubSeq(s, 1, i - 1), SubSeq(s, i + 1, Len(s))>>

\* s.split(c)
RECURSIVE Split(_, _)
Split(s, c) ==
    IF ~Contains(s, c) THEN <<s>>
    ELSE <<SplitFirst(s, c)[1]>> \o Split(SplitFirst(s, c)[2], c)

\* s.splitlines()
RECURSIVE SplitLines(_)
SplitLines(s) ==
    IF s = <<>> THEN <<>>
    ELSE IF ~Contains(s, "\n") THEN <<s>>
    ELSE <<SplitFirst(s, "\n")[1]>> \o SplitLines(SplitFirst(s, "\n")[2])

\* str.lower() on one symbol: the capitalised labels of the help text
LowerSym(c) ==
    CASE c = "Cidade" -> "cidade"
      [] c = "Nome" -> "nome"
      [] c = "ID" -> "id"
      [] c = "ID da Conta" -> "id da conta"
      [] c = "Mes" -> "mes"
      [] c = "Mês transação" -> "mês transação"
      [] c = "Saldo final" -> "saldo final"
      [] c = "Obs" -> "obs"
      [] OTHER -> c

\* str.lower()
Lower(s) == [i \in DOMAIN s |-> LowerSym(s[i])]

\* s.replace(a, "") for a one-symbol a
RECURSIVE Remove(_, _)
Remove(s, a) ==
    IF s = <<>> THEN <<>>
    ELSE IF Head(s) = a THEN Remove(Tail(s), a)
    ELSE <<Head(s)>> \o Remove(Tail(s), a)

\* s.replace(a, b) for one-symbol a and b
Replace(s, a, b) == [i \in DOMAIN s |-> IF s[i] = a THEN b ELSE s[i]]

-----------------------------------------------------------------------------
(* _to_float *)

\* money is kept in hundredths
Scale == 100

\* re.search(r"\d+,\d+", raw): a digit, a comma, a digit
HasCommaDecimal(raw) ==
    \E i \in DOMAIN raw :
        /\ i + 2 <= Len(raw)
        /\ raw[i] \in Digits /\ raw[i + 1] = "," /\ raw[i + 2] \in Digits

\* where r"-?\d+(\.\d+)?" can start matching at position i
MatchStartsAt(raw, i) ==
    \/ raw[i] \in Digits
    \/ raw[i] = "-" /\ i + 1 <= Len(raw) /\ raw[i + 1] \in Digits

\* the end of the run of digits that starts at i (i - 1 when there is none)
RECURSIVE DigitsEnd(_, _)
DigitsEnd(raw, i) ==
    IF i <= Len(raw) /\ raw[i] \in Digits THEN DigitsEnd(raw, i + 1) ELSE i - 1

\* int() of a run of digits
RECURSIVE DigitsValue(_)
DigitsValue(ds) ==
    IF ds = <<>> THEN 0
    ELSE 10 * DigitsValue(SubSeq(ds, 1, Len(ds) - 1)) + DigitVal(ds[Len(ds)])

\* float() of the fraction digits, in hundredths (further digits are below
\* the resolution of the fixed-point representation)
FractionValue(ds) ==
    IF Len(ds) = 0 THEN 0
    ELSE IF Len(ds) = 1 THEN 10 * DigitVal(ds[1])
    ELSE 10 * DigitVal(ds[1]) + DigitVal(ds[2])

\* the fraction of the match whose whole digits end at e1: (\.\d+)?
FractionAfter(raw, e1) ==
    IF e1 + 2 <= Len(raw) /\ raw[e1 + 1] = "." /\ raw[e1 + 2] \in Digits
    THEN FractionValue(SubSeq(raw, e1 + 2, DigitsEnd(raw, e1 + 2)))
    ELSE 0

\* \d+(\.\d+)? whose whole digits are raw[d1..e1]
WholeAndFraction(raw, d1, e1) ==
    DigitsValue(SubSeq(raw, d1, e1)) * Scale + FractionAfter(raw, e1)

\* \d+(\.\d+)? from d1 on
MagnitudeAt(raw, d1) == WholeAndFraction(raw, d1, DigitsEnd(raw, d1))

\* -?\d+(\.\d+)? from p on
MatchAt(raw, p) ==
    IF raw[p] = "-" THEN 0 - MagnitudeAt(raw, p + 1) ELSE MagnitudeAt(raw, p)

\* float(m.group(0)) for the leftmost match of r"-?\d+(\.\d+)?"
MatchValue(raw) ==
    MatchAt(raw, CHOOSE i \in DOMAIN raw :
                     MatchStartsAt(raw, i) /\ \A j \in 1..(i - 1) : ~MatchStartsAt(raw, j))

\* raw.strip().replace("R$", "").replace("USDT", "").replace("USD", "").strip()
Unlabelled(raw) == Strip(Remove(Remove(Remove(Strip(raw), "R$"), "USDT"), "USD"))

\* the decimal comma: 1.234,56 becomes 1234.56, any other comma a point
DecimalPoint(raw) ==
    IF HasCommaDecimal(raw)
    THEN Replace(Remove(raw, "."), ",", ".")
    ELSE Replace(raw, ",", ".")

\* float(m.group(0)) if m else 0.0
FirstNumber(raw) ==
    IF \E i \in DOMAIN raw : MatchStartsAt(raw, i) THEN MatchValue(raw) ELSE 0

ToFloat(raw) == FirstNumber(DecimalPoint(Unlabelled(raw)))

-----------------------------------------------------------------------------
(* parse_message *)

\* dict.get(k, default)
Get(data, k, default) == IF k \in DOMAIN data THEN data[k] ELSE default

\* data[k] = v
Put(data, k, v) == [x \in (DOMAIN data) \cup {k} |-> IF x = k THEN v ELSE data[x]]

EmptyDict == [x \in {} |-> <<>>]

\* the inline loop: for p in parts: skip p without "=", else data[key] = value
RECURSIVE InlineData(_, _)
InlineData(parts, data) ==
    IF parts = <<>> THEN data
    ELSE LET p == Head(parts)
         IN  IF ~Contains(p, "=") THEN InlineData(Tail(parts), data)
             ELSE LET kv == SplitFirst(p, "=")
                  IN  InlineData(Tail(parts),
                                 Put(data, Lower(Strip(kv[1])), Strip(kv[2])))

\* parts = [p.strip() for p in text.split(";") if p.strip()]
InlineParts(text) ==
    LET segs == Split(text, ";")
    IN  SelectSeq([i \in DOMAIN segs |-> Strip(segs[i])], LAMBDA p : p # <<>>)

\* the lookups of the inline branch: the first alias wins, in this order
InlineIdConta(data) == Get(data, <<"id">>, Get(data, <<"id da conta">>, <<>>))

InlineMes(data) ==
    Get(data, <<"mes">>,
        Get(data, <<"mês">>,
            Get(data, <<"mês transação">>, Get(data, <<"mes transação">>, <<>>))))

InlineRecord(data) ==
    [cidade   |-> Get(data, <<"cidade">>, <<>>),
     nome     |-> Get(data, <<"nome">>, <<>>),
     id_conta |-> InlineIdConta(data),
     mes      |-> InlineMes(data),
     inicial  |-> ToFloat(Get(data, <<"inicial">>,
                      Get(data, <<"transação inicial">>,
                          Get(data, <<"transacao inicial">>, <<"0">>)))),
     deposito |-> ToFloat(Get(data, <<"deposito">>, Get(data, <<"depósito">>, <<"0">>))),
     saque    |-> ToFloat(Get(data, <<"saque">>, <<"0">>)),
     final    |-> ToFloat(Get(data, <<"final">>, Get(data, <<"saldo final">>, <<"0">>))),
     obs      |-> Get(data, <<"obs">>,
                      Get(data, <<"observacao">>, Get(data, <<"observação">>, <<>>)))]

\* the line loop: for line in text.splitlines(): skip lines without ":"
RECURSIVE LineData(_, _)
LineData(lines, data) ==
    IF lines = <<>> THEN data
    ELSE LET l == Head(lines)
         IN  IF ~Contains(l, ":") THEN LineData(Tail(lines), data)
             ELSE LET kv == SplitFirst(l, ":")
                  IN  LineData(Tail(lines),
                               Put(data, Lower(Strip(kv[1])), Strip(kv[2])))

\* get_any(*keys, default): the first key present in data wins
RECURSIVE GetAny(_, _, _)
GetAny(data, keys, default) ==
    IF keys = <<>> THEN default
    ELSE IF Head(keys) \in DOMAIN data THEN data[Head(keys)]
    ELSE GetAny(data, Tail(keys), default)

LineIdConta(data) == GetAny(data, <<(<<"id da conta">>), (<<"id">>)>>, <<>>)

LineMes(data) ==
    GetAny(data, <<(<<"mês transação">>), (<<"mes transação">>),
                   (<<"mês">>), (<<"mes">>)>>, <<>>)

LineRecord(data) ==
    [cidade   |-> GetAny(data, <<(<<"cidade">>)>>, <<>>),
     nome     |-> GetAny(data, <<(<<"nome">>)>>, <<>>),
     id_conta |-> LineIdConta(data),
     mes      |-> LineMes(data),
     inicial  |-> ToFloat(GetAny(data, <<(<<"transação inicial">>),
                                         (<<"transacao inicial">>),
                                         (<<"inicial">>)>>, <<"0">>)),
     deposito |-> ToFloat(GetAny(data, <<(<<"depósito">>), (<<"deposito">>)>>, <<"0">>)),
     saque    |-> ToFloat(GetAny(data, <<(<<"saque">>)>>, <<"0">>)),
     final    |-> ToFloat(GetAny(data, <<(<<"saldo final">>), (<<"final">>)>>, <<"0">>)),
     obs      |-> GetAny(data, <<(<<"observação">>), (<<"observacao">>),
                                 (<<"obs">>)>>, <<>>)]

\* if "=" in text and (";" in text or "\n" not in text)
IsInlineSyntax(text) ==
    Contains(text, "=") /\ (Contains(text, ";") \/ ~Contains(text, "\n"))

parse_message(text0) ==
    LET text == Strip(text0)
    IN  IF IsInlineSyntax(text)
        THEN InlineRecord(InlineData(InlineParts(text), EmptyDict))
        ELSE LineRecord(LineData(SplitLines(text), EmptyDict))

-----------------------------------------------------------------------------
(* get_usdbrl, calc_profit and the conversion of handle_text *)

\* the exchange rate is kept in hundredths
RateScale == 100

\* 0.05, in hundredths
DonationRate == 5

Max(a, b) == IF a >= b THEN a ELSE b

Min(a, b) == IF a <= b THEN a ELSE b

\* calc_profit: profit in hundredths; donation = max(0.0, profit * 0.05) keeps
\* the scale of the product, Scale * 100
\* mutant: the donation without the max
calc_profit_nomax(initial, deposit, withdraw, final) ==
    LET profit == final + withdraw - deposit - initial
    IN  [profit |-> profit, donation |-> profit * DonationRate]

calc_profit(initial, deposit, withdraw, final) ==
    LET profit == final + withdraw - deposit - initial
    IN  [profit |-> profit, donation |-> Max(0, profit * DonationRate)]

\* donation_brl = donation * usdbrl, at the scale Scale * 100 * RateScale
DonationBrl(donation, usdbrl) == donation * usdbrl

-----------------------------------------------------------------------------
(* the projections *)

\* DAILY_RATE = 0.0128, in ten-thousandths
DAILY_RATE == 128

DAYS_PER_MONTH == 22

\* the scale of DAILY_RATE and of the monthly factor
FactorScale == 10000

\* a product of two fixed-point numbers, rounded to the nearest unit
RoundedProduct(x, y, scale) == (x * y + scale \div 2) \div scale

\* pow(1.0 + DAILY_RATE, DAYS_PER_MONTH), in ten-thousandths
RECURSIVE PowFixed(_, _)
PowFixed(base, n) ==
    IF n = 0 THEN FactorScale
    ELSE RoundedProduct(PowFixed(base, n - 1), base, FactorScale)

fator_mensal == PowFixed(FactorScale + DAILY_RATE, DAYS_PER_MONTH)

\* saldo * f
TimesFactor(saldo) == RoundedProduct(saldo, fator_mensal, FactorScale)

\* one pass of the loop of projecao_1
P1Step(st) ==
    LET m == st.m + 1
        saldo == TimesFactor(st.saldo)
    IN  [st EXCEPT !.m = m, !.saldo = saldo,
                   !.valores = Append(st.valores, <<m, saldo>>)]

\* mutant: the contribution is added before the month's growth
P2Step_before(st) ==
    LET m == st.m + 1
        saldo == IF m <= st.meses_aporte THEN TimesFactor(st.saldo + st.aporte)
                 ELSE TimesFactor(st.saldo)
    IN  [st EXCEPT !.m = m, !.saldo = saldo,
                   !.valores = Append(st.valores, <<m, saldo>>)]

\* one pass of the loop of projecao_2
P2Step(st) ==
    LET m == st.m + 1
        grown == TimesFactor(st.saldo)
        saldo == IF m <= st.meses_aporte THEN grown + st.aporte ELSE grown
    IN  [st EXCEPT !.m = m, !.saldo = saldo,
                   !.valores = Append(st.valores, <<m, saldo>>)]

\* mutant: the whole profit of the month is withdrawn from the balance but
\* only half of it is recorded
P3Step_bad(st) ==
    LET m == st.m + 1
        inicio == st.saldo
        fim == TimesFactor(inicio)
        lucro == fim - inicio
        sacado == Max(0, lucro \div 2)
        saldo == fim - lucro
    IN  [st EXCEPT !.m = m, !.saldo = saldo, !.fim = fim, !.sacado = sacado,
                   !.total_sacado = st.total_sacado + sacado,
                   !.valores = Append(st.valores, <<m, saldo, sacado>>)]

\* one pass of the loop of projecao_3
P3Step(st) ==
    LET m == st.m + 1
        inicio == st.saldo
        fim == TimesFactor(inicio)
        lucro == fim - inicio
        sacado == Max(0, lucro \div 2)
        saldo == fim - sacado
    IN  [st EXCEPT !.m = m, !.saldo = saldo, !.fim = fim, !.sacado = sacado,
                   !.total_sacado = st.total_sacado + sacado,
                   !.valores = Append(st.valores, <<m, saldo, sacado>>)]

\* the locals of a projection before its loop
ProjStart(inicial, meses, aporte, meses_aporte) ==
    [inicial |-> inicial, meses |-> meses, aporte |-> aporte,
     meses_aporte |-> meses_aporte, m |-> 0, saldo |-> inicial, fim |-> 0,
     sacado |-> 0, total_sacado |-> 0, valores |-> <<>>]

\* for m in range(1, meses + 1): the loop runs while m < meses
RECURSIVE ProjLoop(_, _)
ProjLoop(st, which) ==
    IF st.m >= st.meses THEN st
    ELSE ProjLoop(CASE which = 1 -> P1Step(st)
                    [] which = 2 -> P2Step(st)
                    [] which = 3 -> P3Step(st), which)

projecao_1(inicial, meses) == ProjLoop(ProjStart(inicial, meses, 0, 0), 1)

projecao_2(inicial, meses_total, aporte, meses_aporte) ==
    ProjLoop(ProjStart(inicial, meses_total, aporte, meses_aporte), 2)

projecao_3(inicial, meses) == ProjLoop(ProjStart(inicial, meses, 0, 0), 3)

-----------------------------------------------------------------------------
(* get_all_rows and the summary commands *)

\* get_all_rows: (header, rows) of the worksheet's values
get_all_rows(values) ==
    IF Len(values) <= 1 THEN [header |-> <<>>, rows |-> <<>>]
    ELSE [header |-> values[1], rows |-> Tail(values)]

\* the header labels the commands look up
ColData == <<"Data/Hora">>
ColUid == <<"Telegram ID">>
ColCidade == <<"Cidade">>
ColConta == <<"ID da Conta">>
ColMes == <<"Mês transação">>
ColGanhos == <<"Ganhos período (USDT)">>
ColUsdt == <<"Doação 5% (USDT)">>
ColBrl == <<"Doação 5% (BRL)">>

\* hm = {h.strip(): i for i, h in enumerate(header)}: indices count from 0 and
\* the last column of a name wins
HeaderMap(header) ==
    [name \in {Strip(header[i]) : i \in DOMAIN header} |->
        (CHOOSE i \in DOMAIN header :
            /\ Strip(header[i]) = name
            /\ \A j \in DOMAIN header : j > i => Strip(header[j]) # name) - 1]

\* r[idx], idx counting from 0
At(r, idx) == r[idx + 1]

ZeroAcc == [count |-> 0, ganhos |-> 0, usdt |-> 0, brl |-> 0, raised |-> FALSE]

\* _to_float(r[hm.get(col, 0)] if hm.get(col) is not None else "0"):
\* r[...] raises IndexError when the row ends before the column
SumCell(hm, r, col) ==
    IF col \in DOMAIN hm /\ hm[col] >= Len(r) THEN [raised |-> TRUE, val |-> 0]
    ELSE [raised |-> FALSE,
          val |-> ToFloat(IF col \in DOMAIN hm THEN At(r, hm[col]) ELSE <<"0">>)]

\* count += 1 and the three total_... += lines
\* the accumulators after a row whose three cells were read as g, u and b
AddCells(acc, g, u, b) ==
    IF g.raised \/ u.raised \/ b.raised
    THEN [acc EXCEPT !.raised = TRUE]
    ELSE [count |-> acc.count + 1,
          ganhos |-> acc.ganhos + g.val,
          usdt |-> acc.usdt + u.val,
          brl |-> acc.brl + b.val,
          raised |-> FALSE]

\* the three reads of a row that passed the filter
AddRow(hm, acc, r) ==
    AddCells(acc, SumCell(hm, r, ColGanhos), SumCell(hm, r, ColUsdt),
             SumCell(hm, r, ColBrl))

\* the body of the loop of resumo
ResumoRow(hm, mes, acc, r) ==
    IF Len(r) <= hm[ColMes] THEN acc
    ELSE IF Strip(At(r, hm[ColMes])) # mes THEN acc
    ELSE AddRow(hm, acc, r)

\* mutant: the submitter filter is left out
MeusResumoRow_nouid(hm, user_id, mes, acc, r) ==
    IF Len(r) <= Max(hm[ColUid], hm[ColMes]) THEN acc
    ELSE IF Strip(At(r, hm[ColMes])) # mes THEN acc
    ELSE AddRow(hm, acc, r)

\* the body of the loop of meus_resumo
MeusResumoRow(hm, user_id, mes, acc, r) ==
    IF Len(r) <= Max(hm[ColUid], hm[ColMes]) THEN acc
    ELSE IF Strip(At(r, hm[ColUid])) # user_id THEN acc
    ELSE IF Strip(At(r, hm[ColMes])) # mes THEN acc
    ELSE AddRow(hm, acc, r)

RowStep(cmd, hm, user_id, mes, acc, r) ==
    IF cmd = "resumo" THEN ResumoRow(hm, mes, acc, r)
    ELSE MeusResumoRow(hm, user_id, mes, acc, r)

\* mutant: meus_resumo checks the 'Telegram ID' column only
SchemaOk_uidonly(cmd, hm) ==
    IF cmd = "resumo" THEN ColMes \in DOMAIN hm
    ELSE ColUid \in DOMAIN hm

\* idx_mes is None / idx_uid is None or idx_mes is None
SchemaOk(cmd, hm) ==
    IF cmd = "resumo" THEN ColMes \in DOMAIN hm
    ELSE ColUid \in DOMAIN hm /\ ColMes \in DOMAIN hm

\* the loop over the rows; an exception ends it
RECURSIVE AggLoop(_, _, _, _, _, _)
AggLoop(cmd, hm, user_id, mes, acc, rows) ==
    IF rows = <<>> \/ acc.raised THEN acc
    ELSE AggLoop(cmd, hm, user_id, mes,
                 RowStep(cmd, hm, user_id, mes, acc, Head(rows)), Tail(rows))

\* the reply after the loop
SummaryReply(mes, acc) ==
    IF acc.count = 0 THEN [kind |-> "no_data", mes |-> mes]
    ELSE [kind |-> "summary", mes |-> mes, count |-> acc.count,
          ganhos |-> acc.ganhos, usdt |-> acc.usdt, brl |-> acc.brl]

-----------------------------------------------------------------------------
(* the row handle_text builds and the worksheet that stores it *)

\* round(x, 2) of a number kept at scale 100 * per: to the nearest hundredth,
\* ties to the even one
Round2(x, per) ==
    LET q == x \div per
        r == x % per
    IN  IF 2 * r < per THEN q
        ELSE IF 2 * r > per THEN q + 1
        ELSE IF q % 2 = 0 THEN q ELSE q + 1

DigitSym(d) ==
    CASE d = 0 -> "0" [] d = 1 -> "1" [] d = 2 -> "2" [] d = 3 -> "3"
      [] d = 4 -> "4" [] d = 5 -> "5" [] d = 6 -> "6" [] d = 7 -> "7"
      [] d = 8 -> "8" [] d = 9 -> "9"

RECURSIVE NatText(_)
NatText(n) ==
    IF n < 10 THEN <<DigitSym(n)>>
    ELSE NatText(n \div 10) \o <<DigitSym(n % 10)>>

\* the text the worksheet shows for a number in hundredths: 2, 2.5, 5.25, -1.37
NumText(n) ==
    LET a == IF n < 0 THEN -n ELSE n
        whole == NatText(a \div Scale)
        cents == a % Scale
        frac == IF cents = 0 THEN <<>>
                ELSE IF cents % 10 = 0 THEN <<".", DigitSym(cents \div 10)>>
                ELSE <<".", DigitSym(cents \div 10), DigitSym(cents % 10)>>
    IN  (IF n < 0 THEN <<"-">> ELSE <<>>) \o whole \o frac

\* a cell of the row handle_text sends: a str, or a float in hundredths
Str(s) == [str |-> s]

Num(n) == [num |-> n]

\* the cell the worksheet returns for a cell that was sent
CellText(c) == IF "num" \in DOMAIN c THEN NumText(c.num) ELSE c.str

\* tg_user: the username with a leading "@", or "" without a username
TgUser(username) ==
    IF username # <<>> /\ Head(username) # "@" THEN <<"@">> \o username
    ELSE username

\* the row of handle_text, in the order of the header
BuildRow(now, user, f, calc, usdbrl, donation_brl) ==
    <<Str(now), Str(user.id), Str(TgUser(user.username)),
      Str(f.cidade), Str(f.nome), Str(f.id_conta), Str(f.mes),
      Num(f.inicial), Num(f.deposito), Num(f.saque), Num(f.final),
      Num(calc.profit), Num(Round2(calc.donation, 100)),
      Num(usdbrl), Num(Round2(donation_brl, 100 * RateScale)), Str(f.obs)>>

\* mutant: the append replaces the last data row
append_row_overwrite(values, row_values) ==
    IF Len(values) > 1
    THEN [values EXCEPT ![Len(values)] = [i \in DOMAIN row_values |-> CellText(row_values[i])]]
    ELSE Append(values, [i \in DOMAIN row_values |-> CellText(row_values[i])])

\* ws.append_row(row_values): the worksheet's values after the append
append_row(values, row_values) ==
    Append(values, [i \in DOMAIN row_values |-> CellText(row_values[i])])

\* get_last_row: None (NoRow) for a worksheet with no data row
NoRow == [none |-> TRUE]

get_last_row(values) == IF Len(values) <= 1 THEN NoRow ELSE values[Len(values)]

\* fmt_row_summary: the seven cells it shows, "" where the header or the row
\* lacks the column
FmtGet(r, hm, col) ==
    IF col \in DOMAIN hm /\ hm[col] < Len(r) THEN At(r, hm[col]) ELSE <<>>

fmt_row_summary(r, hm) ==
    [data |-> FmtGet(r, hm, ColData), cidade |-> FmtGet(r, hm, ColCidade),
     conta |-> FmtGet(r, hm, ColConta), mes |-> FmtGet(r, hm, ColMes),
     ganhos |-> FmtGet(r, hm, ColGanhos), usdt |-> FmtGet(r, hm, ColUsdt),
     brl |-> FmtGet(r, hm, ColBrl)]

\* seq[-n:]
LastN(seq, n) == SubSeq(seq, Max(1, Len(seq) - n + 1), Len(seq))

\* mine = [r for r in rows if len(r) > idx_uid and r[idx_uid].strip() == user_id]
Mine(rows, hm, user_id) ==
    SelectSeq(rows, LAMBDA r : Len(r) > hm[ColUid] /\ Strip(At(r, hm[ColUid])) = user_id)

-----------------------------------------------------------------------------
(* _num_list and the display of a series *)

\* " ".join(args)
RECURSIVE Join(_)
Join(args) ==
    IF args = <<>> THEN <<>>
    ELSE IF Len(args) = 1 THEN args[1]
    ELSE args[1] \o <<" ">> \o Join(Tail(args))

\* re.findall(r"\d+(?:[.,]\d+)?", s) from position p on, each match as a float
RECURSIVE FindNumbers(_, _)
FindNumbers(s, p) ==
    IF \A i \in p..Len(s) : s[i] \notin Digits THEN <<>>
    ELSE LET d1 == CHOOSE i \in p..Len(s) :
                       s[i] \in Digits /\ \A j \in p..(i - 1) : s[j] \notin Digits
             e1 == DigitsEnd(s, d1)
             hasFrac == /\ e1 + 2 <= Len(s)
                        /\ s[e1 + 1] \in {".", ","}
                        /\ s[e1 + 2] \in Digits
             e2 == IF hasFrac THEN DigitsEnd(s, e1 + 2) ELSE e1
             val == DigitsValue(SubSeq(s, d1, e1)) * Scale
                    + (IF hasFrac THEN FractionValue(SubSeq(s, e1 + 2, e2)) ELSE 0)
         IN  <<val>> \o FindNumbers(s, e2 + 1)

num_list(args) == FindNumbers(Lower(Join(args)), 1)

\* int(x) of a float that is not negative
ToInt(x) == x \div Scale

\* how many months of a series a reply shows
DisplayLimit == 12

\* _linhas_mensais_...: the first 12 entries and, past 12 months, how many
\* months are left out
linhas_mensais(valores, meses_total) ==
    [linhas |-> SubSeq(valores, 1, Min(DisplayLimit, Len(valores))),
     mais |-> IF meses_total > DisplayLimit THEN meses_total - DisplayLimit ELSE 0]

-----------------------------------------------------------------------------
(* the replies of the read-only commands *)

\* hm of a header; {} for no header
HeaderMapOf(header) == IF header = <<>> THEN EmptyDict ELSE HeaderMap(header)

\* resumo and meus_resumo after the read of the worksheet: the reply, or the
\* IndexError of the loop
\* after the loop: nothing is sent when it raised
SummaryResult(mes, acc) ==
    IF acc.raised THEN [raised |-> TRUE, reply |-> [none |-> TRUE]]
    ELSE [raised |-> FALSE, reply |-> SummaryReply(mes, acc)]

\* if not rows, the check of the filter columns, and the loop
SummaryOver(cmd, mes, user_id, hm, rows) ==
    IF rows = <<>> THEN [raised |-> FALSE, reply |-> [kind |-> "no_records"]]
    ELSE IF ~SchemaOk(cmd, hm)
    THEN [raised |-> FALSE, reply |-> [kind |-> "schema_error"]]
    ELSE SummaryResult(mes, AggLoop(cmd, hm, user_id, mes, ZeroAcc, rows))

\* header, rows = get_all_rows() and hm
SummaryOf(cmd, mes, user_id, snap) ==
    SummaryOver(cmd, mes, user_id, HeaderMapOf(snap.header), snap.rows)

\* if not context.args: the usage text
summary_command(cmd, args, user_id, values) ==
    IF args = <<>> THEN [raised |-> FALSE, reply |-> [kind |-> "usage"]]
    ELSE SummaryOf(cmd, Strip(args[1]), user_id, get_all_rows(values))

\* how many of a submitter's rows /meus shows
MeusLimit == 5

\* meus after the read of the worksheet
meus_command(user_id, values) ==
    LET snap == get_all_rows(values)
        hm == HeaderMapOf(snap.header)
    IN  IF snap.rows = <<>> THEN [kind |-> "no_records"]
        ELSE IF ColUid \notin DOMAIN hm THEN [kind |-> "schema_error"]
        ELSE LET mine == Mine(snap.rows, hm, user_id)
                 last5 == LastN(mine, MeusLimit)
             IN  IF mine = <<>> THEN [kind |-> "no_own_records"]
                 ELSE [kind |-> "meus",
                       rows |-> [k \in DOMAIN last5 |-> fmt_row_summary(last5[k], hm)]]

\* p1, p2 and p3: the usage text for too few numbers, else the projection
\* the reply that shows a projection
ProjReply(which, st) ==
    [kind |-> "projection", which |-> which,
     saldo_final |-> st.saldo, total_sacado |-> st.total_sacado,
     evolucao |-> linhas_mensais(st.valores, st.meses)]

\* the check of len(nums), and the projection on the numbers found
ProjRun(which, nums) ==
    IF Len(nums) < (IF which = 2 THEN 4 ELSE 2)
    THEN [kind |-> "usage", which |-> which]
    ELSE ProjReply(which,
                   CASE which = 1 -> projecao_1(nums[1], ToInt(nums[2]))
                     [] which = 2 -> projecao_2(nums[1], ToInt(nums[2]),
                                                nums[3], ToInt(nums[4]))
                     [] which = 3 -> projecao_3(nums[1], ToInt(nums[2])))

\* nums = _num_list(context.args)
proj_command(which, args) == ProjRun(which, num_list(args))

-----------------------------------------------------------------------------
(* the values of the variables a specification does not use *)

NoRecord == [none |-> TRUE]

CalcIdle == cp = NoRecord

ProjIdle == pj = NoRecord

AggIdle == ag = NoRecord

BotIdle == sheet = <<>> /\ sheet0 = <<>> /\ inv = <<>>

-----------------------------------------------------------------------------
(* SpecParse: the two renderings of the same key/value pairs, as the help   *)
(* text of /start shows them, each handed to parse_message                  *)

\* the labels both branches look up
Aliases ==
    {"cidade", "nome", "id", "id da conta",
     "mes", "mês", "mês transação", "mes transação",
     "inicial", "transação inicial", "transacao inicial",
     "deposito", "depósito", "saque", "final", "saldo final",
     "obs", "observacao", "observação"}

\* labels as a submitter may type them
Labels == Aliases \cup {"ID", "Mês transação", "Saldo final"}

\* the values a pair may carry
PairValues == {<<"1">>, <<"2", ",", "5">>}

\* how many pairs a rendered text carries at most
MaxPairs == 2

Pairs == [key : Labels, val : PairValues]

PairLists == UNION {[1..n -> Pairs] : n \in 1..MaxPairs}

\* "key=value; key=value"
RECURSIVE RenderInline(_)
RenderInline(ps) ==
    IF ps = <<>> THEN <<>>
    ELSE <<Head(ps).key, "=">> \o Head(ps).val
         \o (IF Len(ps) > 1 THEN <<";", " ">> ELSE <<>>)
         \o RenderInline(Tail(ps))

\* "key: value", one per line
RECURSIVE RenderLines(_)
RenderLines(ps) ==
    IF ps = <<>> THEN <<>>
    ELSE <<Head(ps).key, ":", " ">> \o Head(ps).val
         \o (IF Len(ps) > 1 THEN <<"\n">> ELSE <<>>)
         \o RenderLines(Tail(ps))

ParseIdle ==
    /\ pm_pairs = <<>>
    /\ pm_inline = NoRecord
    /\ pm_line = NoRecord
    /\ pm_pc = {}

InitParse ==
    /\ pm_pairs \in PairLists
    /\ pm_inline = NoRecord
    /\ pm_line = NoRecord
    /\ pm_pc = {}
    /\ CalcIdle /\ ProjIdle /\ AggIdle /\ BotIdle

ParseInline ==
    /\ "inline" \notin pm_pc
    /\ pm_inline' = parse_message(RenderInline(pm_pairs))
    /\ pm_pc' = pm_pc \cup {"inline"}
    /\ UNCHANGED <<pm_pairs, pm_line, cp, pj, ag, botVars>>

ParseLines ==
    /\ "line" \notin pm_pc
    /\ pm_line' = parse_message(RenderLines(pm_pairs))
    /\ pm_pc' = pm_pc \cup {"line"}
    /\ UNCHANGED <<pm_pairs, pm_inline, cp, pj, ag, botVars>>

NextParse == ParseInline \/ ParseLines

SpecParse == InitParse /\ [][NextParse]_vars

\* C6: the inline rendering and the line rendering of the same pairs parse
\* to the same record, in every field.
C6_InlineEqualsLine ==
    pm_pc = {"inline", "line"} => pm_inline = pm_line

-----------------------------------------------------------------------------
(* SpecCalc: calc_profit and the conversion on bounded arguments *)

\* the largest magnitude an argument of calc_profit takes, in hundredths
MaxAmount == 2

\* the rates the lookup may return, in hundredths
Rates == {1, 525}

CalcArgs ==
    [initial : (-MaxAmount)..MaxAmount, deposit : (-MaxAmount)..MaxAmount,
     withdraw : (-MaxAmount)..MaxAmount, final : (-MaxAmount)..MaxAmount,
     usdbrl : Rates]

InitCalc ==
    /\ cp \in [pc : {"start"}, args : CalcArgs, out : {NoRecord}, brl : {0}]
    /\ ParseIdle /\ ProjIdle /\ AggIdle /\ BotIdle

\* profit, donation = calc_profit(f["inicial"], f["deposito"], f["saque"], f["final"])
Calc ==
    /\ cp.pc = "start"
    /\ cp' = [cp EXCEPT !.pc = "calc",
                        !.out = calc_profit(cp.args.initial, cp.args.deposit,
                                            cp.args.withdraw, cp.args.final)]
    /\ UNCHANGED <<parseVars, pj, ag, botVars>>

\* donation_brl = donation * usdbrl
Convert ==
    /\ cp.pc = "calc"
    /\ cp' = [cp EXCEPT !.pc = "done",
                        !.brl = DonationBrl(cp.out.donation, cp.args.usdbrl)]
    /\ UNCHANGED <<parseVars, pj, ag, botVars>>

NextCalc == Calc \/ Convert

SpecCalc == InitCalc /\ [][NextCalc]_vars

\* C5: profit = final + withdraw - deposit - initial; the donation is 5% of a
\* positive profit and zero otherwise, so never negative; the second-currency
\* donation is donation * exchange_rate.
C5_ProfitAndDonation ==
    LET a == cp.args
        expected == a.final + a.withdraw - a.deposit - a.initial
    IN  /\ cp.pc \in {"calc", "done"} =>
            /\ cp.out.profit = expected
            /\ cp.out.donation >= 0
            /\ expected <= 0 => cp.out.donation = 0
            /\ expected > 0 => cp.out.donation = expected * DonationRate
        /\ cp.pc = "done" => cp.brl = cp.out.donation * a.usdbrl

\* C5 witness: a loss has been computed and converted, with a zero donation
C5_Witness ==
    /\ cp.pc = "done"
    /\ cp.out.profit < 0
    /\ cp.out.donation = 0
    /\ cp.args.usdbrl = 525

-----------------------------------------------------------------------------
(* SpecProj: projecao_3, one pass of its loop at a time *)

\* the largest initial balance, in hundredths
MaxInicial == 60

\* the largest month count
MaxMeses == 3

\* the initial balances: the small ones, and 500.00 and 1000.00
Iniciais == (0..MaxInicial) \cup {50000, 100000}

InitProj ==
    /\ \E inicial \in Iniciais, meses \in 0..MaxMeses :
           pj = [pc |-> "loop", ret |-> NoRecord, st |-> ProjStart(inicial, meses, 0, 0)]
    /\ ParseIdle /\ CalcIdle /\ AggIdle /\ BotIdle

\* the body of: for m in range(1, meses + 1)
P3Month ==
    /\ pj.pc = "loop"
    /\ pj.st.m < pj.st.meses
    /\ pj' = [pj EXCEPT !.st = P3Step(pj.st)]
    /\ UNCHANGED <<parseVars, cp, ag, botVars>>

\* return saldo, total_sacado, valores
P3Return ==
    /\ pj.pc = "loop"
    /\ pj.st.m >= pj.st.meses
    /\ pj' = [pj EXCEPT !.pc = "returned",
                        !.ret = [saldo |-> pj.st.saldo,
                                 total_sacado |-> pj.st.total_sacado,
                                 valores |-> pj.st.valores]]
    /\ UNCHANGED <<parseVars, cp, ag, botVars>>

NextProj == P3Month \/ P3Return

SpecProj == InitProj /\ [][NextProj]_vars

RECURSIVE SumWithdrawn(_)
SumWithdrawn(valores) ==
    IF valores = <<>> THEN 0
    ELSE SumWithdrawn(SubSeq(valores, 1, Len(valores) - 1)) + valores[Len(valores)][3]

\* C10: after each month's step grown - withdrawn is the recorded balance,
\* withdrawn >= 0 and total_withdrawn is the sum of the recorded withdrawals;
\* on return the series has one entry per month, numbered 1..months in order,
\* and the returned balance is the last recorded one (the initial balance for
\* zero months).
C10_WithdrawHalfProfit ==
    LET st == pj.st
        n == Len(st.valores)
    IN  /\ st.m >= 1 =>
            /\ n = st.m
            /\ st.fim - st.sacado = st.valores[n][2]
            /\ st.valores[n][3] = st.sacado
            /\ st.sacado >= 0
        /\ st.total_sacado = SumWithdrawn(st.valores)
        /\ pj.pc = "returned" =>
            /\ Len(pj.ret.valores) = st.meses
            /\ \A k \in 1..st.meses : pj.ret.valores[k][1] = k
            /\ pj.ret.total_sacado = SumWithdrawn(pj.ret.valores)
            /\ pj.ret.saldo =
                   (IF st.meses = 0 THEN st.inicial
                    ELSE pj.ret.valores[st.meses][2])

\* C10 witness: a projection over several months has returned after
\* withdrawing a positive amount
C10_Witness ==
    /\ pj.pc = "returned"
    /\ pj.st.meses >= 2
    /\ pj.ret.total_sacado > 0
    /\ pj.ret.valores[2][3] > 0

C10_WitnessZeroMonths ==
    /\ pj.pc = "returned"
    /\ pj.st.meses = 0
    /\ pj.st.inicial > 0

-----------------------------------------------------------------------------
(* SpecProj2: projecao_2, one pass of its loop at a time *)

\* the largest small contribution, in hundredths
MaxAporte == 3

\* the initial balances: the small ones, and 500.00
Iniciais2 == (0..MaxInicial) \cup {50000}

\* the contributions: none, the small ones, and 100.00
Aportes == (0..MaxAporte) \cup {10000}

\* the months that contribute: none, some, all, and more than the projection
\* has
MesesAporte == 0..(MaxMeses + 1)

InitProj2 ==
    /\ \E inicial \in Iniciais2, meses_total \in 0..MaxMeses,
          aporte \in Aportes, meses_aporte \in MesesAporte :
           pj = [pc |-> "loop", ret |-> NoRecord,
                 st |-> ProjStart(inicial, meses_total, aporte, meses_aporte)]
    /\ ParseIdle /\ CalcIdle /\ AggIdle /\ BotIdle

\* the body of: for m in range(1, meses_total + 1)
P2Month ==
    /\ pj.pc = "loop"
    /\ pj.st.m < pj.st.meses
    /\ pj' = [pj EXCEPT !.st = P2Step(pj.st)]
    /\ UNCHANGED <<parseVars, cp, ag, botVars>>

\* return saldo, valores
P2Return ==
    /\ pj.pc = "loop"
    /\ pj.st.m >= pj.st.meses
    /\ pj' = [pj EXCEPT !.pc = "returned",
                        !.ret = [saldo |-> pj.st.saldo, valores |-> pj.st.valores]]
    /\ UNCHANGED <<parseVars, cp, ag, botVars>>

NextProj2 == P2Month \/ P2Return

SpecProj2 == InitProj2 /\ [][NextProj2]_vars

\* the balance month k starts from: the initial one, or the one recorded for
\* the month before
PreviousBalance(k) == IF k = 1 THEN pj.st.inicial ELSE pj.st.valores[k - 1][2]

\* what the recorded balance of month k holds beyond the month's growth
AddedInMonth(k) == pj.st.valores[k][2] - TimesFactor(PreviousBalance(k))

RECURSIVE TotalAdded(_)
TotalAdded(n) == IF n = 0 THEN 0 ELSE TotalAdded(n - 1) + AddedInMonth(n)

\* C11: the balance recorded for month m is the previous balance times the
\* monthly factor, plus the contribution exactly when m <= months_contributing
\* (the growth applies to the balance before the contribution); on return
\* every month of 1..months_total is recorded and the contributions added are
\* min(months_total, months_contributing) times the contribution
C11_ContributionAfterGrowth ==
    LET st == pj.st
    IN  /\ Len(st.valores) = st.m
        /\ \A k \in 1..st.m :
              /\ st.valores[k][1] = k
              /\ st.valores[k][2] =
                     IF k <= st.meses_aporte
                     THEN TimesFactor(PreviousBalance(k)) + st.aporte
                     ELSE TimesFactor(PreviousBalance(k))
        /\ st.m >= 1 => st.saldo = st.valores[st.m][2]
        /\ pj.pc = "returned" =>
              /\ Len(pj.ret.valores) = st.meses
              /\ TotalAdded(st.meses) = Min(st.meses, st.meses_aporte) * st.aporte

\* C11 witness: a projection has returned whose first months contributed
\* 100.00 each after their growth and whose last month did not
C11_Witness ==
    /\ pj.pc = "returned"
    /\ pj.st.inicial = 50000 /\ pj.st.aporte = 10000
    /\ pj.st.meses = MaxMeses /\ pj.st.meses_aporte = MaxMeses - 1
    /\ AddedInMonth(1) = 10000
    /\ AddedInMonth(MaxMeses) = 0
    /\ TimesFactor(pj.st.inicial + pj.st.aporte) # pj.st.valores[1][2]

-----------------------------------------------------------------------------
(* SpecAgg: resumo and meus_resumo over a snapshot of the worksheet.  The    *)
(* snapshot's header and row count are fixed at the start; the loop reads    *)
(* each row once, in order, and the row is drawn when the loop reaches it.   *)

\* how many data rows a snapshot holds at most
MaxRows == 2

\* how many cells a data row holds at most
MaxRowLen == 5

\* what a cell may hold
Cells == {<<"1">>, <<" ", "2", " ">>}

Rows == UNION {[1..n -> Cells] : n \in 0..MaxRowLen}

\* header rows: the summary columns of the schema in order, permuted with a
\* summed column first, with summed columns missing, with a filter column
\* missing, with padded and repeated labels, and blank
Headers ==
    {<<ColUid, ColMes, ColGanhos, ColUsdt, ColBrl>>,
     <<ColGanhos, ColMes, ColUid, ColBrl, ColUsdt>>,
     <<ColUid, ColMes, ColGanhos>>,
     <<ColMes, ColGanhos, ColUsdt, ColBrl>>,
     <<ColUid, ColGanhos, ColUsdt, ColBrl>>,
     <<ColMes, <<" ", "Telegram ID", " ">>, ColUsdt, ColMes>>,
     <<>>}

\* context.args of the two commands
AggArgs == {<<>>, <<(<<"1">>)>>, <<(<<"2">>)>>}

\* str(update.effective_user.id)
UserIds == {<<"1">>, <<"2">>}

ZeroGhost == [count |-> 0, ganhos |-> 0, usdt |-> 0, brl |-> 0]

InitAgg ==
    /\ \E cmd \in {"resumo", "meus_resumo"}, args \in AggArgs, uid \in UserIds,
          header \in Headers, n \in 0..MaxRows :
           ag = [pc |-> "start", cmd |-> cmd, args |-> args, user_id |-> uid,
                 header |-> header, nrows |-> n, i |-> 0,
                 acc |-> ZeroAcc, before |-> ZeroAcc, short |-> FALSE,
                 ghost |-> ZeroGhost, reply |-> NoRecord]
    /\ ParseIdle /\ CalcIdle /\ ProjIdle /\ BotIdle

\* mes = context.args[0].strip()
AggMes == Strip(ag.args[1])

\* the handler up to its loop: usage, no rows, schema error
AggStart ==
    /\ ag.pc = "start"
    /\ ag' = IF ag.args = <<>>
             THEN [ag EXCEPT !.pc = "replied", !.reply = [kind |-> "usage"]]
             ELSE IF ag.nrows = 0
             THEN [ag EXCEPT !.pc = "replied", !.reply = [kind |-> "no_records"]]
             ELSE IF ~SchemaOk(ag.cmd, HeaderMap(ag.header))
             THEN [ag EXCEPT !.pc = "replied", !.reply = [kind |-> "schema_error"]]
             ELSE [ag EXCEPT !.pc = "loop"]
    /\ UNCHANGED <<parseVars, cp, pj, botVars>>

\* the columns the loop reads for a row, where the header has them
ReadCols(cmd) ==
    IF cmd = "resumo" THEN {ColMes, ColGanhos, ColUsdt, ColBrl}
    ELSE {ColUid, ColMes, ColGanhos, ColUsdt, ColBrl}

\* the row ends before a column the loop reads
RowShort(cmd, hm, r) == \E col \in ReadCols(cmd) \cap DOMAIN hm : Len(r) <= hm[col]

\* the row has the filter cells and they equal the filters once trimmed
RowMatches(cmd, hm, user_id, mes, r) ==
    /\ hm[ColMes] < Len(r) /\ Strip(At(r, hm[ColMes])) = mes
    /\ cmd = "meus_resumo" =>
           hm[ColUid] < Len(r) /\ Strip(At(r, hm[ColUid])) = user_id

\* the number a column holds in a row, 0 where the header or the row lacks it
CellValue(hm, r, col) ==
    IF col \in DOMAIN hm /\ hm[col] < Len(r) THEN ToFloat(At(r, hm[col])) ELSE 0

GhostAdd(g, cmd, hm, user_id, mes, r) ==
    IF RowMatches(cmd, hm, user_id, mes, r)
    THEN [count |-> g.count + 1,
          ganhos |-> g.ganhos + CellValue(hm, r, ColGanhos),
          usdt |-> g.usdt + CellValue(hm, r, ColUsdt),
          brl |-> g.brl + CellValue(hm, r, ColBrl)]
    ELSE g

\* one pass of: for r in rows
AggRow ==
    /\ ag.pc = "loop"
    /\ ag.i < ag.nrows
    /\ \E r \in Rows :
        LET hm == HeaderMap(ag.header)
            acc == RowStep(ag.cmd, hm, ag.user_id, AggMes, ag.acc, r)
        IN  ag' = [ag EXCEPT !.pc = IF acc.raised THEN "raised" ELSE "loop",
                             !.i = ag.i + 1,
                             !.acc = acc,
                             !.before = ag.acc,
                             !.short = RowShort(ag.cmd, hm, r),
                             !.ghost = GhostAdd(ag.ghost, ag.cmd, hm,
                                                ag.user_id, AggMes, r)]
    /\ UNCHANGED <<parseVars, cp, pj, botVars>>

\* after the loop: no data for the filter, or the summary
AggFinish ==
    /\ ag.pc = "loop"
    /\ ag.i = ag.nrows
    /\ ag' = [ag EXCEPT !.pc = "replied", !.reply = SummaryReply(AggMes, ag.acc)]
    /\ UNCHANGED <<parseVars, cp, pj, botVars>>

NextAgg == AggStart \/ AggRow \/ AggFinish

SpecAgg == InitAgg /\ [][NextAgg]_vars

\* C7: a row that ends before a column the loop reads for it is skipped (the
\* count and the sums stay as they were) and the loop raises no error.
C7_ShortRowsSkipped ==
    /\ ag.pc # "raised"
    /\ ag.short => ag.acc = ag.before

\* the header lacks a filter column of the command
FilterColumnMissing ==
    \/ ColMes \notin DOMAIN HeaderMap(ag.header)
    \/ ag.cmd = "meus_resumo" /\ ColUid \notin DOMAIN HeaderMap(ag.header)

\* the header lacks a summed column
SummedColumnMissing ==
    \E col \in {ColGanhos, ColUsdt, ColBrl} : col \notin DOMAIN HeaderMap(ag.header)

\* a period was given and the snapshot holds data rows, so the header is read
HeaderRead == ag.args # <<>> /\ ag.nrows > 0

\* C8 as stated: a header that lacks a filter column or a summed column makes
\* the command report a schema error, with no count and no sums.
C8_AnyMissingColumnIsSchemaError ==
    (ag.pc = "replied" /\ HeaderRead /\ (FilterColumnMissing \/ SummedColumnMissing))
        => ag.reply.kind = "schema_error"

\* C8 amended: with a period given and data rows in the store, the command
\* reports a schema error, and nothing else, exactly when the header lacks a
\* filter column; a missing summed column is no schema error, and a summary
\* reports 0 for it.
C8_MissingFilterColumnIsSchemaError ==
    (HeaderRead /\ ag.pc # "start") =>
        /\ FilterColumnMissing <=> (ag.pc = "replied" /\ ag.reply.kind = "schema_error")
        /\ FilterColumnMissing => ag.acc = ZeroAcc
        /\ (ag.pc = "replied" /\ ag.reply.kind = "summary") =>
               /\ ColGanhos \notin DOMAIN HeaderMap(ag.header) => ag.reply.ganhos = 0
               /\ ColUsdt \notin DOMAIN HeaderMap(ag.header) => ag.reply.usdt = 0
               /\ ColBrl \notin DOMAIN HeaderMap(ag.header) => ag.reply.brl = 0

\* C8 witnesses: a schema error for a missing filter column, and a summary
\* over a header that lacks a summed column
C8_Witness ==
    /\ HeaderRead /\ ag.pc = "replied"
    /\ ag.cmd = "meus_resumo"
    /\ ColUid \notin DOMAIN HeaderMap(ag.header)
    /\ ColMes \in DOMAIN HeaderMap(ag.header)
    /\ ag.reply.kind = "schema_error"

C8_WitnessSummedMissing ==
    /\ ag.pc = "replied" /\ ag.reply.kind = "summary"
    /\ ColBrl \notin DOMAIN HeaderMap(ag.header)
    /\ ag.reply.ganhos > 0

\* C9: the reported count is the number of rows whose trimmed filter cells
\* equal the filters, each reported sum is the sum of its column over those
\* rows, and "no data" is reported only when no row matches.
C9_CountAndSumsOverMatches ==
    /\ ag.pc = "loop" =>
           /\ ag.acc.count = ag.ghost.count
           /\ ag.acc.ganhos = ag.ghost.ganhos
           /\ ag.acc.usdt = ag.ghost.usdt
           /\ ag.acc.brl = ag.ghost.brl
    /\ (ag.pc = "replied" /\ ag.reply.kind = "summary") =>
           /\ ag.reply.count = ag.ghost.count
           /\ ag.reply.ganhos = ag.ghost.ganhos
           /\ ag.reply.usdt = ag.ghost.usdt
           /\ ag.reply.brl = ag.ghost.brl
    /\ (ag.pc = "replied" /\ ag.reply.kind = "no_data") => ag.ghost.count = 0

\* C9 witness: my-summary counted one of two rows, the other one being of
\* another submitter or period
C9_Witness ==
    /\ ag.pc = "replied" /\ ag.reply.kind = "summary"
    /\ ag.cmd = "meus_resumo"
    /\ ag.nrows = 2
    /\ ag.reply.count = 1
    /\ ag.reply.ganhos > 0

-----------------------------------------------------------------------------
(* Spec: the handlers, interleaved over one worksheet.  Each slot runs one   *)
(* invocation: a registration (handle_text), /ultimo, /resumo, /meus,        *)
(* /meus_resumo or a projection.  A step is what a handler does between two  *)
(* calls to a collaborator (the rate service, the worksheet, the transport). *)

\* how many invocations run, each by its own submitter
NumInv == 2

Slots == 1..NumInv

\* the header row of the worksheet, in the order of the row of handle_text
Header ==
    <<ColData, ColUid, <<"Telegram Usuário">>, ColCidade, <<"Nome">>, ColConta,
      ColMes, <<"Transação Inicial">>, <<"Depósito">>, <<"Saque">>,
      <<"Saldo final">>, ColGanhos, ColUsdt, <<"Taxa USD/BRL">>, ColBrl,
      <<"Observação">>>>

\* update.effective_user of a slot: every other submitter has a username
UserOf(i) ==
    [id |-> NatText(i), username |-> IF i % 2 = 1 THEN <<"ana">> ELSE <<>>]

\* datetime.now().strftime(...)
Now == <<"01/11/2026 10:00">>

\* the texts a registration may carry: inline with a gain, lines with a
\* loss, inline without a period, and lines with a blank period
TextInline ==
    <<"cidade", "=", "Uberaba", ";", " ", "mes", "=", "02/2026", ";", " ",
      "inicial", "=", "5", ";", " ", "final", "=", "7">>

TextLines ==
    <<"Mês transação", ":", " ", "02/2026", "\n", "inicial", ":", " ", "5", "\n",
      "Saldo final", ":", " ", "3", ",", "5">>

TextNoMes == <<"cidade", "=", "Uberaba", ";", " ", "final", "=", "7">>

TextEmptyMes == <<"Mês transação", ":", " ", "\n", "Saldo final", ":", " ", "7">>

Texts == {TextInline, TextLines, TextNoMes, TextEmptyMes}

\* the rate a successful lookup returns, in hundredths
BotRates == {525}

\* what a failed lookup raises: raise_for_status, or a body without "bid"
LookupErrors == {"HTTPError", "KeyError"}

\* what a failed worksheet call raises
SheetError == "APIError"

\* context.args of /resumo and /meus_resumo
PeriodArgs == {<<>>, <<(<<"02/2026">>)>>}

\* context.args of /p1, /p2 and /p3
ProjArgs == {<<(<<"5">>)>>, <<(<<"5">>), (<<"2">>), (<<"1", ",", "5">>), (<<"1">>)>>}

\* the worksheets an invocation may find: the header alone, or the header
\* and a row registered earlier by the first submitter
PriorSheets ==
    LET f == parse_message(TextInline)
        calc == calc_profit(f.inicial, f.deposito, f.saque, f.final)
    IN  {<<Header>>,
         append_row(<<Header>>,
                    BuildRow(<<"31/10/2026 09:00">>, UserOf(1), f, calc, 525,
                             DonationBrl(calc.donation, 525)))}

IdleInv(i) ==
    [pc |-> "idle", cmd |-> "none", user |-> UserOf(i), f |-> NoRecord,
     usdbrl |-> 0, calc |-> NoRecord, donation_brl |-> 0, row |-> <<>>,
     last |-> NoRow, err |-> "none", reply |-> NoRecord,
     lookups |-> 0, appends |-> 0]

Init ==
    /\ sheet \in PriorSheets
    /\ sheet0 = sheet
    /\ inv = [i \in Slots |-> IdleInv(i)]
    /\ ParseIdle /\ CalcIdle /\ ProjIdle /\ AggIdle

Reply(i, r) == [inv EXCEPT ![i].pc = "done", ![i].reply = r]

\* mutant: the period is never found missing
MesMissing_never(f) == FALSE

\* not f["mes"]
MesMissing(f) == f.mes = <<>>

\* handle_text up to the lookup: parse, and stop with the validation reply
\* when the period is empty
HT_Begin(i) ==
    /\ inv[i].pc = "idle"
    /\ \E text \in Texts :
        LET f == parse_message(Strip(text))
        IN  inv' = IF MesMissing(f)
                   THEN [inv EXCEPT ![i].cmd = "register", ![i].f = f,
                                    ![i].pc = "done",
                                    ![i].reply = [kind |-> "validation"]]
                   ELSE [inv EXCEPT ![i].cmd = "register", ![i].f = f,
                                    ![i].pc = "lookup"]
    /\ UNCHANGED <<parseVars, cp, pj, ag, sheet, sheet0>>

\* usdbrl = get_usdbrl() returns; the profit, the donations and the row are
\* computed
HT_LookupOk(i) ==
    /\ inv[i].pc = "lookup"
    /\ \E usdbrl \in BotRates :
        LET f == inv[i].f
            calc == calc_profit(f.inicial, f.deposito, f.saque, f.final)
            donation_brl == DonationBrl(calc.donation, usdbrl)
        IN  inv' = [inv EXCEPT ![i].pc = "append",
                               ![i].lookups = @ + 1,
                               ![i].usdbrl = usdbrl,
                               ![i].calc = calc,
                               ![i].donation_brl = donation_brl,
                               ![i].row = BuildRow(Now, inv[i].user, f, calc,
                                                   usdbrl, donation_brl)]
    /\ UNCHANGED <<parseVars, cp, pj, ag, sheet, sheet0>>

\* mutant: a failed lookup is tried again
HT_LookupFails_retry(i) ==
    /\ inv[i].pc = "lookup"
    /\ inv[i].lookups < 2
    /\ inv' = [inv EXCEPT ![i].lookups = @ + 1]
    /\ UNCHANGED <<parseVars, cp, pj, ag, sheet, sheet0>>

\* get_usdbrl() raises: on to the except clause
HT_LookupFails(i) ==
    /\ inv[i].pc = "lookup"
    /\ \E e \in LookupErrors :
        inv' = [inv EXCEPT ![i].pc = "except", ![i].lookups = @ + 1, ![i].err = e]
    /\ UNCHANGED <<parseVars, cp, pj, ag, sheet, sheet0>>

\* append_row_to_sheet(row) returns: the row is in the worksheet
HT_AppendOk(i) ==
    /\ inv[i].pc = "append"
    /\ sheet' = append_row(sheet, inv[i].row)
    /\ inv' = [inv EXCEPT ![i].pc = "reply", ![i].appends = @ + 1]
    /\ UNCHANGED <<parseVars, cp, pj, ag, sheet0>>

\* mutant: a failed append is answered like a successful one
HT_AppendFails_confirmed(i) ==
    /\ inv[i].pc = "append"
    /\ inv' = [inv EXCEPT ![i].pc = "reply", ![i].appends = @ + 1]
    /\ UNCHANGED <<parseVars, cp, pj, ag, sheet, sheet0>>

\* append_row_to_sheet(row) raises: on to the except clause
HT_AppendFails(i) ==
    /\ inv[i].pc = "append"
    /\ inv' = [inv EXCEPT ![i].pc = "except", ![i].appends = @ + 1,
                          ![i].err = SheetError]
    /\ UNCHANGED <<parseVars, cp, pj, ag, sheet, sheet0>>

\* the reply after the append: the confirmation
HT_Reply(i) ==
    /\ inv[i].pc = "reply"
    /\ inv' = Reply(i, [kind |-> "registered",
                        cidade |-> inv[i].f.cidade,
                        profit |-> inv[i].calc.profit,
                        donation |-> inv[i].calc.donation,
                        usdbrl |-> inv[i].usdbrl,
                        donation_brl |-> inv[i].donation_brl])
    /\ UNCHANGED <<parseVars, cp, pj, ag, sheet, sheet0>>

\* except Exception as e: the failure reply, with the example and the cause
HT_Except(i) ==
    /\ inv[i].pc = "except"
    /\ inv' = Reply(i, [kind |-> "failure", cause |-> inv[i].err])
    /\ UNCHANGED <<parseVars, cp, pj, ag, sheet, sheet0>>

\* ultimo up to its second read: get_last_row()
Ultimo1(i) ==
    /\ inv[i].pc = "idle"
    /\ LET row == get_last_row(sheet)
       IN  inv' = IF row = NoRow
                  THEN [inv EXCEPT ![i].cmd = "ultimo", ![i].pc = "done",
                                   ![i].reply = [kind |-> "no_records"]]
                  ELSE [inv EXCEPT ![i].cmd = "ultimo", ![i].pc = "ultimo2",
                                   ![i].last = row]
    /\ UNCHANGED <<parseVars, cp, pj, ag, sheet, sheet0>>

\* ultimo from its second read: get_all_rows() for the header, and the reply
Ultimo2(i) ==
    /\ inv[i].pc = "ultimo2"
    /\ LET hm == HeaderMapOf(get_all_rows(sheet).header)
       IN  inv' = Reply(i, [kind |-> "ultimo",
                            row |-> fmt_row_summary(inv[i].last, hm)])
    /\ UNCHANGED <<parseVars, cp, pj, ag, sheet, sheet0>>

\* the invocation after resumo or meus_resumo ran: the reply, or the IndexError,
\* which no handler catches
SummaryOutcome(i, cmd, res) ==
    IF res.raised
    THEN [inv EXCEPT ![i].cmd = cmd, ![i].pc = "raised", ![i].err = "IndexError"]
    ELSE [inv EXCEPT ![i].cmd = cmd, ![i].pc = "done", ![i].reply = res.reply]

\* resumo and meus_resumo: one read of the worksheet, then the outcome
Summary(i) ==
    /\ inv[i].pc = "idle"
    /\ \E cmd \in {"resumo", "meus_resumo"}, args \in PeriodArgs :
        inv' = SummaryOutcome(i, cmd, summary_command(cmd, args, inv[i].user.id, sheet))
    /\ UNCHANGED <<parseVars, cp, pj, ag, sheet, sheet0>>

\* meus: one read of the worksheet, then the reply
Meus(i) ==
    /\ inv[i].pc = "idle"
    /\ inv' = [inv EXCEPT ![i].cmd = "meus", ![i].pc = "done",
                          ![i].reply = meus_command(inv[i].user.id, sheet)]
    /\ UNCHANGED <<parseVars, cp, pj, ag, sheet, sheet0>>

\* a read of the worksheet raises; the read-only handlers catch nothing
ReadFails(i) ==
    /\ \/ /\ inv[i].pc = "idle"
          /\ \E cmd \in {"ultimo", "resumo", "meus", "meus_resumo"} :
                 inv' = [inv EXCEPT ![i].cmd = cmd, ![i].pc = "raised",
                                    ![i].err = SheetError]
       \/ /\ inv[i].pc = "ultimo2"
          /\ inv' = [inv EXCEPT ![i].pc = "raised", ![i].err = SheetError]
    /\ UNCHANGED <<parseVars, cp, pj, ag, sheet, sheet0>>

\* p1, p2, p3: no collaborator but the transport
Projection(i) ==
    /\ inv[i].pc = "idle"
    /\ \E which \in {1, 2, 3}, args \in ProjArgs :
        inv' = [inv EXCEPT ![i].cmd = "projection", ![i].pc = "done",
                           ![i].reply = proj_command(which, args)]
    /\ UNCHANGED <<parseVars, cp, pj, ag, sheet, sheet0>>

Next ==
    \E i \in Slots :
        \/ HT_Begin(i) \/ HT_LookupOk(i) \/ HT_LookupFails(i)
        \/ HT_AppendOk(i) \/ HT_AppendFails(i) \/ HT_Reply(i) \/ HT_Except(i)
        \/ Ultimo1(i) \/ Ultimo2(i) \/ Summary(i) \/ Meus(i) \/ ReadFails(i)
        \/ Projection(i)

Spec == Init /\ [][Next]_vars

-----------------------------------------------------------------------------
(* the claims about handle_text and the worksheet                           *)
(*                                                                          *)
(* The transport delivers every reply, a worksheet call that raises has not *)
(* written, and each slot runs one invocation by a submitter of its own, so *)
(* a row added since Init is told apart by its 'Telegram ID' cell.          *)

\* s is a prefix of t
IsPrefix(s, t) == Len(s) <= Len(t) /\ SubSeq(t, 1, Len(s)) = s

\* the rows added since Init
Added == SubSeq(sheet, Len(sheet0) + 1, Len(sheet))

\* the rows added since Init that carry the submitter of slot i
RowsBy(i) == SelectSeq(Added, LAMBDA r : r[2] = UserOf(i).id)

\* the slots that run a registration
Registering == {i \in Slots : inv[i].cmd = "register"}

\* C1: a registration whose parsed period is empty has stopped with the
\* validation reply, has not called the rate lookup and has appended no row,
\* whatever the text and whatever the worksheet held before
C1_EmptyPeriodStops ==
    \A i \in Registering :
        inv[i].f.mes = <<>> =>
            /\ inv[i].pc = "done"
            /\ inv[i].reply = [kind |-> "validation"]
            /\ inv[i].lookups = 0
            /\ inv[i].appends = 0
            /\ RowsBy(i) = <<>>

\* the empty period met on a worksheet that already has a row, next to
\* another submitter's registration that was appended
C1_Witness ==
    \E i, j \in Registering :
        /\ inv[i].f.mes = <<>> /\ inv[i].pc = "done"
        /\ Len(sheet0) > 1
        /\ RowsBy(j) # <<>>

\* C2: the worksheet is append-only: every step leaves the earlier contents
\* as a prefix of the later ones, and a step of an invocation that is not a
\* registration leaves the worksheet as it was
C2_AppendOnly ==
    [][/\ IsPrefix(sheet, sheet')
       /\ \A i \in Slots :
              inv'[i] # inv[i] /\ inv'[i].cmd # "register" => sheet' = sheet]_vars

\* the worksheet has grown while a read-only command and a projection ran
C2_Witness ==
    /\ Len(sheet) > Len(sheet0)
    /\ Len(sheet0) > 1
    /\ \E i \in Slots : inv[i].cmd \in {"ultimo", "resumo", "meus", "meus_resumo",
                                        "projection"}
                        /\ inv[i].pc = "done"

\* C3: a registration calls the lookup at most once and the append at most
\* once; after a failed lookup it has not tried the append, has added no row
\* and, once it has replied, the reply is the failure reply with the cause;
\* after a failed append the worksheet has no row of it and the reply is the
\* failure reply with the cause
C3_FailureNoRetryNoRow ==
    \A i \in Registering :
        /\ inv[i].lookups <= 1
        /\ inv[i].appends <= 1
        /\ inv[i].err \in LookupErrors =>
              /\ inv[i].appends = 0
              /\ RowsBy(i) = <<>>
              /\ inv[i].pc \in {"except", "done"}
              /\ inv[i].pc = "done" =>
                     inv[i].reply = [kind |-> "failure", cause |-> inv[i].err]
        /\ inv[i].err = SheetError =>
              /\ inv[i].lookups = 1
              /\ RowsBy(i) = <<>>
              /\ inv[i].pc \in {"except", "done"}
              /\ inv[i].pc = "done" =>
                     inv[i].reply = [kind |-> "failure", cause |-> inv[i].err]

\* one registration answered after a failed lookup, another after a failed
\* append
C3_Witness ==
    \E i, j \in Registering :
        /\ inv[i].pc = "done" /\ inv[i].err \in LookupErrors
        /\ inv[j].pc = "done" /\ inv[j].err = SheetError

\* the row a registration has computed, as the worksheet shows it
ShownRow(i) == [k \in DOMAIN inv[i].row |-> CellText(inv[i].row[k])]

\* C4: the worksheet has grown by one row for each registration whose append
\* returned and by nothing else; a registration appends after its lookup
\* returned and its row was computed, the row it appends is that row, and it
\* confirms only with its row in the worksheet; a registration that ended
\* without the confirmation has appended nothing
C4_OneRowPerSuccess ==
    /\ Len(Added) = Cardinality({i \in Registering : RowsBy(i) # <<>>})
    /\ \A i \in Registering :
        /\ Len(RowsBy(i)) <= 1
        /\ inv[i].pc = "append" =>
              inv[i].lookups = 1 /\ inv[i].appends = 0 /\ inv[i].row # <<>>
        /\ RowsBy(i) # <<>> =>
              /\ inv[i].lookups = 1 /\ inv[i].appends = 1
              /\ inv[i].f.mes # <<>>
              /\ RowsBy(i) = <<ShownRow(i)>>
              /\ inv[i].pc \in {"reply", "done"}
              /\ inv[i].pc = "done" => inv[i].reply.kind = "registered"
        /\ inv[i].pc = "done" /\ inv[i].reply.kind = "registered" =>
              RowsBy(i) = <<ShownRow(i)>>
        /\ inv[i].pc = "done" /\ inv[i].reply.kind # "registered" =>
              RowsBy(i) = <<>>

\* every slot has registered and been confirmed: the worksheet holds one row
\* more for each
C4_Witness ==
    /\ \A i \in Slots : /\ inv[i].cmd = "register" /\ inv[i].pc = "done"
                        /\ inv[i].reply.kind = "registered"
    /\ Len(sheet) = Len(sheet0) + NumInv

=============================================================================
